---------------------------- MODULE Spec2Model ----------------------------
(***************************************************************************)
(* Notes Manager: the categorization engine and the note store of          *)
(* server/index.js (Express handlers over an in-memory sql.js database     *)
(* that is exported to notes.db after every mutation).                     *)
(*                                                                         *)
(* Text is modelled as a sequence of one-character strings, so that        *)
(* trim(), toLowerCase() and the \b-bounded keyword regex are computed as  *)
(* the code computes them.                                                 *)
(***************************************************************************)
EXTENDS Integers, Sequences, FiniteSets, TLC

(* ------------------------------ bounds -------------------------------- *)
\* how many ids crypto.randomUUID() hands out in one behaviour
MaxIds == 2
\* how far the millisecond clock read by Date.now() advances
MaxClock == 2
\* how many times fs.writeFileSync fails or is interrupted, or a statement of the
\* start-up migration throws, in one behaviour
MaxFaults == 1
\* how many requests and signals arrive in one behaviour of the event loop
MaxArrivals == 3
\* how many times the page calls createNote, updateNote or deleteNote
MaxCalls == 3

(* ------------------------------- text --------------------------------- *)
UpperCase ==
  << "A","B","C","D","E","F","G","H","I","J","K","L","M",
     "N","O","P","Q","R","S","T","U","V","W","X","Y","Z" >>

LowerCase ==
  << "a","b","c","d","e","f","g","h","i","j","k","l","m",
     "n","o","p","q","r","s","t","u","v","w","x","y","z" >>

Digits == {"0","1","2","3","4","5","6","7","8","9"}

\* the characters String.prototype.trim() strips (those the inputs use)
WhiteSpace == {" ", "\t", "\n"}

Range(s) == {s[i] : i \in DOMAIN s}

\* \w of the regex: [A-Za-z0-9_]
isWordChar(c) == c \in Range(UpperCase) \cup Range(LowerCase) \cup Digits \cup {"_"}

toLowerCaseChar(c) ==
  IF c \in Range(UpperCase)
    THEN LowerCase[CHOOSE i \in DOMAIN UpperCase : UpperCase[i] = c]
    ELSE c

\* String.prototype.toLowerCase()
toLowerCase(s) == [i \in DOMAIN s |-> toLowerCaseChar(s[i])]

RECURSIVE trimStart(_)
trimStart(s) ==
  IF s # <<>> /\ Head(s) \in WhiteSpace THEN trimStart(Tail(s)) ELSE s

RECURSIVE trimEnd(_)
trimEnd(s) ==
  IF s # <<>> /\ s[Len(s)] \in WhiteSpace
    THEN trimEnd(SubSeq(s, 1, Len(s) - 1))
    ELSE s

\* String.prototype.trim()
trim(s) == trimEnd(trimStart(s))

(* ----------------------- categorization engine ------------------------ *)
\* the category labels, as text
Educational == <<"E", "d", "u", "c", "a", "t", "i", "o", "n", "a", "l">>

Business == <<"B", "u", "s", "i", "n", "e", "s", "s">>

Personal == <<"P", "e", "r", "s", "o", "n", "a", "l">>

Technology == <<"T", "e", "c", "h", "n", "o", "l", "o", "g", "y">>

Finance == <<"F", "i", "n", "a", "n", "c", "e">>

Health == <<"H", "e", "a", "l", "t", "h">>

Travel == <<"T", "r", "a", "v", "e", "l">>

General == <<"G", "e", "n", "e", "r", "a", "l">>

KW_Educational ==
  << <<"s","t","u","d","y">>, <<"e","x","a","m">>, <<"c","o","u","r","s","e">>,
     <<"l","e","c","t","u","r","e">>, <<"h","o","m","e","w","o","r","k">>,
     <<"u","n","i","v","e","r","s","i","t","y">>, <<"c","o","l","l","e","g","e">>,
     <<"s","c","h","o","o","l">>, <<"r","e","s","e","a","r","c","h">>, <<"l","e","a","r","n">>,
     <<"l","e","a","r","n","i","n","g">>, <<"s","t","u","d","e","n","t">>,
     <<"t","e","a","c","h","e","r">>, <<"p","r","o","f","e","s","s","o","r">>,
     <<"a","s","s","i","g","n","m","e","n","t">>, <<"t","h","e","s","i","s">>,
     <<"d","i","s","s","e","r","t","a","t","i","o","n">>, <<"t","u","t","o","r","i","a","l">>,
     <<"e","d","u","c","a","t","i","o","n">>, <<"c","l","a","s","s">>,
     <<"s","e","m","e","s","t","e","r">>, <<"g","r","a","d","e">>,
     <<"t","e","x","t","b","o","o","k">>, <<"c","u","r","r","i","c","u","l","u","m">>,
     <<"s","y","l","l","a","b","u","s">>, <<"a","c","a","d","e","m","i","c">>,
     <<"s","c","h","o","l","a","r","s","h","i","p">>, <<"d","i","p","l","o","m","a">>,
     <<"d","e","g","r","e","e">>, <<"k","n","o","w","l","e","d","g","e">>,
     <<"t","r","a","i","n","i","n","g">>, <<"w","o","r","k","s","h","o","p">>,
     <<"q","u","i","z">>, <<"t","e","s","t">>, <<"c","h","a","p","t","e","r">>,
     <<"n","o","t","e","s">>, <<"r","e","a","d","i","n","g">>, <<"e","s","s","a","y">>,
     <<"p","a","p","e","r">> >>

KW_Business ==
  << <<"m","e","e","t","i","n","g">>, <<"c","l","i","e","n","t">>,
     <<"r","e","v","e","n","u","e">>, <<"p","r","o","j","e","c","t">>,
     <<"d","e","a","d","l","i","n","e">>, <<"s","t","r","a","t","e","g","y">>,
     <<"i","n","v","o","i","c","e">>, <<"b","u","d","g","e","t">>,
     <<"s","t","a","k","e","h","o","l","d","e","r">>,
     <<"p","r","e","s","e","n","t","a","t","i","o","n">>, <<"p","r","o","p","o","s","a","l">>,
     <<"c","o","n","t","r","a","c","t">>, <<"n","e","g","o","t","i","a","t","i","o","n">>,
     <<"p","a","r","t","n","e","r","s","h","i","p">>, <<"m","a","r","k","e","t","i","n","g">>,
     <<"s","a","l","e","s">>, <<"p","r","o","f","i","t">>, <<"l","o","s","s">>,
     <<"s","t","a","r","t","u","p">>, <<"e","n","t","r","e","p","r","e","n","e","u","r">>,
     <<"c","u","s","t","o","m","e","r">>, <<"v","e","n","d","o","r">>,
     <<"s","u","p","p","l","i","e","r">>, <<"l","o","g","i","s","t","i","c","s">>,
     <<"o","p","e","r","a","t","i","o","n","s">>, <<"m","a","n","a","g","e","m","e","n","t">>,
     <<"l","e","a","d","e","r","s","h","i","p">>, <<"t","e","a","m">>,
     <<"c","o","r","p","o","r","a","t","e">>, <<"o","f","f","i","c","e">>,
     <<"q","u","a","r","t","e","r","l","y">>, <<"k","p","i">>, <<"r","o","i">>,
     <<"t","a","r","g","e","t">>, <<"p","i","p","e","l","i","n","e">>, <<"d","e","a","l">>,
     <<"a","g","e","n","d","a">>, <<"m","i","l","e","s","t","o","n","e">>,
     <<"d","e","l","i","v","e","r","a","b","l","e">>, <<"r","e","p","o","r","t">>,
     <<"a","n","a","l","y","t","i","c","s">>, <<"f","o","r","e","c","a","s","t">> >>

KW_Personal ==
  << <<"f","a","m","i","l","y">>, <<"b","i","r","t","h","d","a","y">>,
     <<"v","a","c","a","t","i","o","n">>, <<"h","o","b","b","y">>, <<"d","i","a","r","y">>,
     <<"g","o","a","l">>, <<"f","r","i","e","n","d">>,
     <<"r","e","l","a","t","i","o","n","s","h","i","p">>, <<"w","e","d","d","i","n","g">>,
     <<"a","n","n","i","v","e","r","s","a","r","y">>, <<"p","a","r","t","y">>,
     <<"w","e","e","k","e","n","d">>, <<"h","o","m","e">>, <<"g","a","r","d","e","n">>,
     <<"c","o","o","k","i","n","g">>, <<"r","e","c","i","p","e">>, <<"p","e","t">>,
     <<"d","o","g">>, <<"c","a","t">>, <<"k","i","d","s">>, <<"c","h","i","l","d","r","e","n">>,
     <<"p","a","r","e","n","t">>, <<"m","o","m">>, <<"d","a","d">>,
     <<"s","h","o","p","p","i","n","g">>, <<"g","i","f","t">>, <<"m","e","m","o","r","y">>,
     <<"d","r","e","a","m">>, <<"w","i","s","h">>, <<"j","o","u","r","n","a","l">>,
     <<"g","r","a","t","i","t","u","d","e">>, <<"l","o","v","e">>,
     <<"e","m","o","t","i","o","n">>, <<"f","e","e","l","i","n","g">>,
     <<"p","e","r","s","o","n","a","l">>, <<"s","e","l","f","-","c","a","r","e">>,
     <<"m","i","n","d","f","u","l","n","e","s","s">>,
     <<"m","e","d","i","t","a","t","i","o","n">>, <<"r","e","f","l","e","c","t","i","o","n">> >>

KW_Technology ==
  << <<"c","o","d","e">>, <<"p","r","o","g","r","a","m","m","i","n","g">>,
     <<"s","o","f","t","w","a","r","e">>, <<"a","p","i">>, <<"s","e","r","v","e","r">>,
     <<"d","a","t","a","b","a","s","e">>, <<"b","u","g">>, <<"d","e","p","l","o","y">>,
     <<"f","r","o","n","t","e","n","d">>, <<"b","a","c","k","e","n","d">>,
     <<"a","l","g","o","r","i","t","h","m">>, <<"j","a","v","a","s","c","r","i","p","t">>,
     <<"p","y","t","h","o","n">>, <<"r","e","a","c","t">>, <<"n","o","d","e">>,
     <<"h","t","m","l">>, <<"c","s","s">>, <<"g","i","t">>, <<"g","i","t","h","u","b">>,
     <<"d","o","c","k","e","r">>, <<"c","l","o","u","d">>, <<"a","w","s">>,
     <<"a","z","u","r","e">>, <<"l","i","n","u","x">>, <<"w","i","n","d","o","w","s">>,
     <<"a","p","p">>, <<"a","p","p","l","i","c","a","t","i","o","n">>,
     <<"f","r","a","m","e","w","o","r","k">>, <<"l","i","b","r","a","r","y">>,
     <<"c","o","m","p","o","n","e","n","t">>, <<"f","u","n","c","t","i","o","n">>,
     <<"v","a","r","i","a","b","l","e">>, <<"d","e","b","u","g">>,
     <<"c","o","m","p","i","l","e">>, <<"a","i">>,
     <<"m","a","c","h","i","n","e"," ","l","e","a","r","n","i","n","g">>,
     <<"d","a","t","a"," ","s","c","i","e","n","c","e">>,
     <<"c","y","b","e","r","s","e","c","u","r","i","t","y">>, <<"d","e","v","o","p","s">>,
     <<"m","i","c","r","o","s","e","r","v","i","c","e">>,
     <<"a","r","c","h","i","t","e","c","t","u","r","e">>, <<"t","e","r","m","i","n","a","l">>,
     <<"c","o","m","m","a","n","d">>, <<"s","c","r","i","p","t">>,
     <<"a","u","t","o","m","a","t","i","o","n">>, <<"t","e","s","t","i","n","g">>,
     <<"c","i","/","c","d">>, <<"a","g","i","l","e">>, <<"s","c","r","u","m">>,
     <<"t","e","c","h">>, <<"c","o","m","p","u","t","e","r">> >>

KW_Finance ==
  << <<"i","n","v","e","s","t","m","e","n","t">>, <<"s","a","v","i","n","g","s">>,
     <<"b","a","n","k">>, <<"t","a","x">>, <<"s","a","l","a","r","y">>,
     <<"e","x","p","e","n","s","e">>, <<"l","o","a","n">>, <<"s","t","o","c","k">>,
     <<"m","u","t","u","a","l"," ","f","u","n","d">>, <<"p","o","r","t","f","o","l","i","o">>,
     <<"d","i","v","i","d","e","n","d">>, <<"i","n","t","e","r","e","s","t">>,
     <<"m","o","r","t","g","a","g","e">>, <<"i","n","s","u","r","a","n","c","e">>,
     <<"r","e","t","i","r","e","m","e","n","t">>, <<"p","e","n","s","i","o","n">>,
     <<"c","r","e","d","i","t">>, <<"d","e","b","i","t">>, <<"p","a","y","m","e","n","t">>,
     <<"t","r","a","n","s","a","c","t","i","o","n">>,
     <<"a","c","c","o","u","n","t","i","n","g">>, <<"a","u","d","i","t">>,
     <<"b","a","l","a","n","c","e">>, <<"i","n","c","o","m","e">>, <<"w","e","a","l","t","h">>,
     <<"c","r","y","p","t","o">>, <<"b","i","t","c","o","i","n">>,
     <<"t","r","a","d","i","n","g">>, <<"f","o","r","e","x">>, <<"b","o","n","d">>,
     <<"e","q","u","i","t","y">>, <<"a","s","s","e","t">>,
     <<"l","i","a","b","i","l","i","t","y">>, <<"i","n","f","l","a","t","i","o","n">>,
     <<"e","m","i">>, <<"f","i","n","a","n","c","e">>, <<"f","i","n","a","n","c","i","a","l">>,
     <<"m","o","n","e","y">> >>

KW_Health ==
  << <<"e","x","e","r","c","i","s","e">>, <<"d","i","e","t">>, <<"w","o","r","k","o","u","t">>,
     <<"d","o","c","t","o","r">>, <<"m","e","d","i","c","i","n","e">>, <<"s","l","e","e","p">>,
     <<"n","u","t","r","i","t","i","o","n">>, <<"g","y","m">>, <<"y","o","g","a">>,
     <<"r","u","n","n","i","n","g">>, <<"f","i","t","n","e","s","s">>,
     <<"w","e","i","g","h","t">>, <<"c","a","l","o","r","i","e","s">>,
     <<"p","r","o","t","e","i","n">>, <<"v","i","t","a","m","i","n">>,
     <<"s","u","p","p","l","e","m","e","n","t">>, <<"h","o","s","p","i","t","a","l">>,
     <<"c","l","i","n","i","c">>, <<"t","h","e","r","a","p","y">>,
     <<"m","e","n","t","a","l"," ","h","e","a","l","t","h">>, <<"a","n","x","i","e","t","y">>,
     <<"d","e","p","r","e","s","s","i","o","n">>, <<"w","e","l","l","n","e","s","s">>,
     <<"h","y","d","r","a","t","i","o","n">>, <<"w","a","t","e","r">>, <<"w","a","l","k">>,
     <<"s","t","r","e","t","c","h","i","n","g">>, <<"c","a","r","d","i","o">>,
     <<"s","t","r","e","n","g","t","h">>, <<"r","e","c","o","v","e","r","y">>,
     <<"i","n","j","u","r","y">>, <<"p","r","e","s","c","r","i","p","t","i","o","n">>,
     <<"c","h","e","c","k","u","p">>,
     <<"b","l","o","o","d"," ","p","r","e","s","s","u","r","e">>, <<"h","e","a","r","t">>,
     <<"h","e","a","l","t","h">>, <<"h","e","a","l","t","h","y">>,
     <<"d","i","s","e","a","s","e">> >>

KW_Travel ==
  << <<"f","l","i","g","h","t">>, <<"h","o","t","e","l">>, <<"t","r","i","p">>,
     <<"d","e","s","t","i","n","a","t","i","o","n">>, <<"p","a","s","s","p","o","r","t">>,
     <<"i","t","i","n","e","r","a","r","y">>, <<"b","o","o","k","i","n","g">>,
     <<"t","o","u","r">>, <<"a","i","r","p","o","r","t">>, <<"l","u","g","g","a","g","e">>,
     <<"s","i","g","h","t","s","e","e","i","n","g">>, <<"b","e","a","c","h">>,
     <<"m","o","u","n","t","a","i","n">>, <<"c","a","m","p","i","n","g">>,
     <<"h","i","k","i","n","g">>, <<"r","o","a","d"," ","t","r","i","p">>,
     <<"c","r","u","i","s","e">>, <<"r","e","s","o","r","t">>,
     <<"b","a","c","k","p","a","c","k","i","n","g">>, <<"v","i","s","a">>,
     <<"t","i","c","k","e","t">>, <<"t","r","a","i","n">>, <<"b","u","s">>,
     <<"a","d","v","e","n","t","u","r","e">>, <<"e","x","p","l","o","r","e">>,
     <<"t","r","a","v","e","l">>, <<"j","o","u","r","n","e","y">>, <<"a","b","r","o","a","d">>,
     <<"i","n","t","e","r","n","a","t","i","o","n","a","l">>,
     <<"d","o","m","e","s","t","i","c">>, <<"t","o","u","r","i","s","m">>,
     <<"l","a","n","d","m","a","r","k">>, <<"m","u","s","e","u","m">>,
     <<"c","u","l","t","u","r","e">>, <<"r","e","s","t","a","u","r","a","n","t">>,
     <<"s","t","r","e","e","t"," ","f","o","o","d">> >>

\* Object.entries(CATEGORIES), in the order the object literal lists its keys
CATEGORIES ==
  << [category |-> Educational, keywords |-> KW_Educational],
     [category |-> Business, keywords |-> KW_Business],
     [category |-> Personal, keywords |-> KW_Personal],
     [category |-> Technology, keywords |-> KW_Technology],
     [category |-> Finance, keywords |-> KW_Finance],
     [category |-> Health, keywords |-> KW_Health],
     [category |-> Travel, keywords |-> KW_Travel] >>

\* \b at position p (between text[p-1] and text[p]): exactly one side is a word character
wordBoundary(text, p) ==
  LET before == p > 1 /\ isWordChar(text[p - 1])
      after  == p <= Len(text) /\ isWordChar(text[p])
  IN  before # after

\* the regex \b<keyword>\b, flags gi, matches at position p of text
regexMatchesAt(text, keyword, p) ==
  /\ p + Len(keyword) - 1 <= Len(text)
  /\ \A k \in 1..Len(keyword) : toLowerCaseChar(text[p + k - 1]) = toLowerCaseChar(keyword[k])
  /\ wordBoundary(text, p)
  /\ wordBoundary(text, p + Len(keyword))

\* (text.match(regex) || []).length with the g flag: leftmost matches, each
\* search resuming where the previous match ended
RECURSIVE matchCountFrom(_, _, _)
matchCountFrom(text, keyword, p) ==
  IF p + Len(keyword) - 1 > Len(text) THEN 0
  ELSE IF regexMatchesAt(text, keyword, p)
    THEN 1 + matchCountFrom(text, keyword, p + Len(keyword))
    ELSE matchCountFrom(text, keyword, p + 1)

\* variant: the regex without its \b anchors
matchCount_noBoundary(text, keyword) ==
  Cardinality({p \in 1..Len(text) :
                 /\ p + Len(keyword) - 1 <= Len(text)
                 /\ \A k \in 1..Len(keyword) :
                      toLowerCaseChar(text[p + k - 1]) = toLowerCaseChar(keyword[k])})

matchCount(text, keyword) == matchCountFrom(text, keyword, 1)

RECURSIVE scoreFrom_equalWeights(_, _, _, _)
\* variant: title matches count once
scoreFrom_equalWeights(titleLower, contentLower, keywords, k) ==
  IF k > Len(keywords) THEN 0
  ELSE matchCount(titleLower, keywords[k]) + matchCount(contentLower, keywords[k])
         + scoreFrom_equalWeights(titleLower, contentLower, keywords, k + 1)

\* the inner loop of categorize: the score of one category's keyword list
RECURSIVE scoreFrom(_, _, _, _)
scoreFrom(titleLower, contentLower, keywords, k) ==
  IF k > Len(keywords) THEN 0
  ELSE matchCount(titleLower, keywords[k]) * 2 + matchCount(contentLower, keywords[k])
         + scoreFrom(titleLower, contentLower, keywords, k + 1)

\* score of the n-th category after its keyword loop
categoryScore(title, content, n) ==
  scoreFrom(toLowerCase(title), toLowerCase(content), CATEGORIES[n].keywords, 1)

RECURSIVE bestAfter_lastWins(_, _, _)
\* variant: the comparison is score >= bestScore
bestAfter_lastWins(title, content, n) ==
  IF n = 0 THEN [bestCategory |-> General, bestScore |-> 0]
  ELSE LET prev  == bestAfter_lastWins(title, content, n - 1)
           score == categoryScore(title, content, n)
       IN  IF score >= prev.bestScore
             THEN [bestCategory |-> CATEGORIES[n].category, bestScore |-> score]
             ELSE prev

\* the outer loop of categorize: best so far after the first n categories
RECURSIVE bestAfter(_, _, _)
bestAfter(title, content, n) ==
  IF n = 0 THEN [bestCategory |-> General, bestScore |-> 0]
  ELSE LET prev  == bestAfter(title, content, n - 1)
           score == categoryScore(title, content, n)
       IN  IF score > prev.bestScore
             THEN [bestCategory |-> CATEGORIES[n].category, bestScore |-> score]
             ELSE prev

categorize(title, content) == bestAfter(title, content, Len(CATEGORIES)).bestCategory

(* ------------------------------ requests ------------------------------ *)
\* a JSON body field that may be missing
Absent == [some |-> FALSE, val |-> <<>>]

Some(s) == [some |-> TRUE, val |-> s]

\* `title` of a request body: missing, blank, padded, plain
TitleInputs ==
  { Absent, Some(<<" ", "\t">>), Some(<<" ", "E", "x", "a", "m", " ">>), Some(<<"h", "i">>) }

\* `content` of a request body: empty, padded
ContentInputs ==
  { Some(<<>>), Some(<<"d", "o", "g", " ">>) }

\* variant: the check without trim()
isBlank_noTrim(field) == ~field.some \/ field.val = <<>>

\* !value || !value.trim()
isBlank(field) == ~field.some \/ field.val = <<>> \/ trim(field.val) = <<>>

\* `category` of a request body: missing, empty, the Auto sentinel, a label of the caller
Auto == <<"A", "u", "t", "o">>

CategoryInputs ==
  { Absent, Some(<<>>), Some(Auto), Some(Travel) }

\* the request bodies sent: every valid title and content with every category choice,
\* and every way of being invalid with the category left out
Bodies ==
  { b \in [title : TitleInputs, content : ContentInputs, category : CategoryInputs] :
      (isBlank(b.title) \/ isBlank(b.content)) => b.category = Absent }

\* the ids a PUT or DELETE may name
Ids == 1..MaxIds

\* outcomes of fs.writeFileSync(DB_PATH, buffer): it returns; it throws before the
\* file is touched (open fails); it throws after open() truncated the file; the
\* process is killed after open() truncated the file and before the data is written
WriteOutcomes == {"ok", "throws", "throwsTruncated", "killed"}

(* ------------------------------- state -------------------------------- *)
VARIABLES
  phase,    \* "down": no process; "serving": initDb resolved and app.listen runs
  db,       \* rows of the notes table of the in-memory database, in rowid order
  file,     \* notes.db on disk
  clock,    \* what Date.now() returns
  issued,   \* how many ids crypto.randomUUID() has produced
  faults,   \* how many writes of notes.db have failed or been interrupted
  resp,     \* the response sent last, with the operation it answers
  everAssigned,  \* history: ids given to an inserted row
  deleted,       \* history: ids whose DELETE was answered 200
  committed,     \* history: the collection when a mutation was last answered 200 or 201
  req,           \* history: the body of the request handled last, kept when the
                 \* handler got as far as its write (NoBody when it returned before)
  reqBlank,      \* history: the last request's title or content was empty after trimming
  engine,        \* a call of categorize: its arguments and its loop variables
  client,        \* the browser: the state of the useNotes hook and its fetch calls
  stack,         \* event loop: the callback on the call stack (its place in acts), 0 for none
  acts           \* event loop: the callbacks that have arrived, with how far each has run

vars == <<phase, db, file, clock, issued, faults, resp, everAssigned, deleted,
          committed, req, reqBlank, stack, acts, engine, client>>

\* no page open
NoClient == [notes |-> <<>>, isLoaded |-> FALSE, calls |-> <<>>]

\* no call of categorize under way
NoCall ==
  [title |-> <<>>, content |-> <<>>, n |-> 0, bestCategory |-> <<>>, bestScore |-> 0,
   pc |-> "idle"]

NoFile == [kind |-> "absent", rows |-> <<>>]

\* a zero-length notes.db, left by an interrupted writeFileSync
TruncatedFile == [kind |-> "truncated", rows |-> <<>>]

DbFile(rows) == [kind |-> "db", rows |-> rows]

\* a notes.db written before the category column existed: its rows have no category
LegacyFile(rows) == [kind |-> "legacy", rows |-> rows]

\* no body: a GET, a DELETE, or no request at all
NoBody == [title |-> Absent, content |-> Absent, category |-> Absent]

NoResp == [op |-> "none", status |-> 0, id |-> 0, body |-> <<>>, q |-> <<>>]

\* res.status(status).json(body) of the handler of op; id is the note the request named
\* or created, body the rows sent (none for an error or a message), q the keyword of
\* a search
Response(op, status, id, body) ==
  [op |-> op, status |-> status, id |-> id, body |-> body, q |-> <<>>]

(* ------------------------------ database ------------------------------ *)
rowIds(rows) == {rows[i].id : i \in DOMAIN rows}

\* variant: the query without its WHERE clause
queryOne_anyRow(rows, id) == IF rows # <<>> THEN 1 ELSE 0

\* queryOne('SELECT * FROM notes WHERE id = ?'): the position of the row, 0 for null
queryOne(rows, id) ==
  IF id \in rowIds(rows) THEN CHOOSE i \in DOMAIN rows : rows[i].id = id ELSE 0

\* INSERT INTO notes ...: the new row gets the next rowid
insertRow(rows, row) == Append(rows, row)

\* variant: the statement leaves updatedAt out of its SET list
updateRow_keepsUpdatedAt(rows, id, title, content, category, now) ==
  [i \in DOMAIN rows |->
     IF rows[i].id = id
       THEN [rows[i] EXCEPT !.title = title, !.content = content, !.category = category]
       ELSE rows[i]]

\* variant: the statement without its WHERE clause
updateRow_everyRow(rows, id, title, content, category, now) ==
  [i \in DOMAIN rows |->
     [rows[i] EXCEPT !.title = title, !.content = content,
                     !.category = category, !.updatedAt = now]]

\* UPDATE notes SET title, content, category, updatedAt WHERE id = ?
updateRow(rows, id, title, content, category, now) ==
  [i \in DOMAIN rows |->
     IF rows[i].id = id
       THEN [rows[i] EXCEPT !.title = title, !.content = content,
                            !.category = category, !.updatedAt = now]
       ELSE rows[i]]

\* variant: the statement matches no row
removeId_keepsRow(rows, id) == rows

RECURSIVE removeId(_, _)
\* DELETE FROM notes WHERE id = ?
removeId(rows, id) ==
  IF rows = <<>> THEN <<>>
  ELSE IF Head(rows).id = id THEN removeId(Tail(rows), id)
  ELSE <<Head(rows)>> \o removeId(Tail(rows), id)

RECURSIVE insertSorted(_, _)
\* one step of ORDER BY createdAt DESC: r goes after the rows that are not older
insertSorted(sorted, r) ==
  IF sorted = <<>> THEN <<r>>
  ELSE IF Head(sorted).createdAt >= r.createdAt
    THEN <<Head(sorted)>> \o insertSorted(Tail(sorted), r)
    ELSE <<r>> \o sorted

RECURSIVE orderByCreatedAtDesc(_)
\* ORDER BY createdAt DESC over the rows of a table scan (rows with equal createdAt
\* stay in scan order)
orderByCreatedAtDesc(rows) ==
  IF rows = <<>> THEN <<>>
  ELSE insertSorted(orderByCreatedAtDesc(SubSeq(rows, 1, Len(rows) - 1)), rows[Len(rows)])

\* variant: the query without its ORDER BY
listAll_unordered(rows) == rows

\* GET /api/notes: SELECT * FROM notes ORDER BY createdAt DESC
listAll(rows) == orderByCreatedAtDesc(rows)

RECURSIVE like(_, _)
\* SQLite's  text LIKE pattern : % stands for any run of characters, _ for any one
\* character, letters compare without case
like(pattern, text) ==
  IF pattern = <<>> THEN text = <<>>
  ELSE IF Head(pattern) = "%"
    THEN like(Tail(pattern), text) \/ (text # <<>> /\ like(pattern, Tail(text)))
  ELSE /\ text # <<>>
       /\ Head(pattern) = "_" \/ toLowerCaseChar(Head(pattern)) = toLowerCaseChar(Head(text))
       /\ like(Tail(pattern), Tail(text))

\* variant: the query without its ORDER BY
search_scanOrder(rows, keyword) ==
  LET pattern == <<"%">> \o keyword \o <<"%">>
      hit(r) == like(pattern, r.title) \/ like(pattern, r.content)
  IN  SelectSeq(rows, hit)

\* GET /api/notes/search?q=keyword:
\* SELECT * FROM notes WHERE title LIKE ? OR content LIKE ? ORDER BY createdAt DESC
search(rows, keyword) ==
  LET pattern == <<"%">> \o keyword \o <<"%">>
      hit(r) == like(pattern, r.title) \/ like(pattern, r.content)
  IN  orderByCreatedAtDesc(SelectSeq(rows, hit))

\* the q of a search: none, a word of a title, a word of a content, the wildcards
SearchInputs == { <<>>, <<"e", "x", "a", "m">>, <<"D", "O">>, <<"%">>, <<"_">>, <<"z">> }

\* the characters of the texts used here, in code-unit order
Ascii ==
  << "\t", "\n", " ", "%", "-", "/" >>
    \o << "0", "1", "2", "3", "4", "5", "6", "7", "8", "9" >>
    \o UpperCase \o << "_" >> \o LowerCase

charCode(c) == CHOOSE i \in DOMAIN Ascii : Ascii[i] = c

RECURSIVE textLess(_, _)
\* a < b under SQLite's BINARY collation (memcmp, the shorter prefix first)
textLess(a, b) ==
  IF b = <<>> THEN FALSE
  ELSE IF a = <<>> THEN TRUE
  ELSE IF Head(a) = Head(b) THEN textLess(Tail(a), Tail(b))
  ELSE charCode(Head(a)) < charCode(Head(b))

RECURSIVE insertText(_, _)
\* one step of ORDER BY category over DISTINCT values
insertText(sorted, c) ==
  IF sorted = <<>> THEN <<c>>
  ELSE IF Head(sorted) = c THEN sorted
  ELSE IF textLess(Head(sorted), c) THEN <<Head(sorted)>> \o insertText(Tail(sorted), c)
  ELSE <<c>> \o sorted

RECURSIVE listCategoriesInUse_scanOrder(_)
\* variant: DISTINCT without the ORDER BY
listCategoriesInUse_scanOrder(rows) ==
  IF rows = <<>> THEN <<>>
  ELSE LET first == listCategoriesInUse_scanOrder(SubSeq(rows, 1, Len(rows) - 1))
           c == rows[Len(rows)].category
       IN  IF \E k \in DOMAIN first : first[k] = c THEN first ELSE Append(first, c)

RECURSIVE listCategoriesInUse(_)
\* GET /api/categories: SELECT DISTINCT category FROM notes ORDER BY category
listCategoriesInUse(rows) ==
  IF rows = <<>> THEN <<>>
  ELSE insertText(listCategoriesInUse(SubSeq(rows, 1, Len(rows) - 1)), rows[Len(rows)].category)

(* ---------------------------- persistence ----------------------------- *)
\* saveDb(): notes.db after fs.writeFileSync(DB_PATH, Buffer.from(db.export()))
saveDb(rows, old, io) ==
  CASE io = "ok" -> DbFile(rows)
    [] io = "throws" -> old
    [] OTHER -> TruncatedFile

\* the outcomes the environment still allows, and the count of those that went wrong
canWrite(io) == io = "ok" \/ faults < MaxFaults

countWrite(io) == IF io = "ok" THEN faults ELSE faults + 1

\* new SQL.Database(fileBuffer) / new SQL.Database(), then CREATE TABLE IF NOT EXISTS:
\* a zero-length image opens as an empty database
loadDb(f) == IF f.kind \in {"db", "legacy"} THEN f.rows ELSE <<>>

\* tableInfo.some(col => col.name === 'category')
hasCategory(f) == f.kind # "legacy"

\* a row of the old table with the new column set
withCategory(r, category) ==
  [id |-> r.id, title |-> r.title, content |-> r.content, category |-> category,
   createdAt |-> r.createdAt, updatedAt |-> r.updatedAt]

(* ------------------------------ actions ------------------------------- *)
\* a body field that is missing or empty after trimming
emptyAfterTrim(field) == ~field.some \/ trim(field.val) = <<>>

Init ==
  /\ phase = "down"
  /\ db = <<>>
  /\ file = NoFile
  /\ clock = 1
  /\ issued = 0
  /\ faults = 0
  /\ resp = NoResp
  /\ everAssigned = {}
  /\ deleted = {}
  /\ committed = <<>>
  /\ req = NoBody
  /\ reqBlank = FALSE
  /\ stack = 0
  /\ acts = <<>>
  /\ engine = NoCall
  /\ client = NoClient

\* a millisecond passes
Tick ==
  /\ req' = NoBody
  /\ reqBlank' = FALSE
  /\ UNCHANGED <<stack, acts, engine, client>>
  /\ clock < MaxClock
  /\ clock' = clock + 1
  /\ resp' = NoResp
  /\ UNCHANGED <<phase, db, file, issued, faults, everAssigned, deleted, committed>>

\* !category || category === 'Auto'
isAuto(category) == ~category.some \/ category.val = <<>> \/ category.val = Auto

\* categorize over the texts a valid request can carry, computed once
categorizeTable ==
  [ t \in {trim(x.val) : x \in TitleInputs}, c \in {trim(x.val) : x \in ContentInputs} |->
      categorize(t, c) ]

\* ALTER TABLE notes ADD COLUMN category ... DEFAULT 'General', then for the first
\* `done` rows of SELECT id, title, content FROM notes:
\* db.run('UPDATE notes SET category = ? WHERE id = ?', [categorize(title, content), id])
migrate(rows, done) ==
  [i \in DOMAIN rows |->
     withCategory(rows[i],
       IF i <= done THEN categorizeTable[rows[i].title, rows[i].content] ELSE General)]

\* node index.js: initDb() loads or creates the database and saves it; the server
\* listens only if that resolved, otherwise process.exit(1)
InitDb ==
  /\ req' = NoBody
  /\ reqBlank' = FALSE
  /\ UNCHANGED <<stack, acts, engine, client>>
  /\ phase = "down"
  /\ \E done \in 0..Len(loadDb(file)), io \in WriteOutcomes :
       LET loaded == loadDb(file)
           \* the migration ran to its end, or a statement threw after `done` rows and
           \* the catch block swallowed it
           thrown == IF done < Len(loaded) THEN 1 ELSE 0
           rows == IF hasCategory(file) THEN loaded ELSE migrate(loaded, done)
       IN  /\ hasCategory(file) => done = Len(loaded)
           /\ faults + thrown + (IF io = "ok" THEN 0 ELSE 1) <= MaxFaults
           /\ faults' = faults + thrown + (IF io = "ok" THEN 0 ELSE 1)
           /\ file' = saveDb(rows, file, io)
           /\ IF io = "ok"
                THEN phase' = "serving" /\ db' = rows
                ELSE phase' = "down" /\ db' = <<>>
  /\ resp' = NoResp
  /\ UNCHANGED <<clock, issued, everAssigned, deleted, committed>>

\* variant: only the Auto sentinel reaches the engine
resolveCategory_autoOnly(manualCategory, trimmedTitle, trimmedContent) ==
  IF manualCategory.val = Auto THEN categorizeTable[trimmedTitle, trimmedContent]
  ELSE manualCategory.val

\* variant: the category of the body is stored whatever it is
resolveCategory_asSent(manualCategory, trimmedTitle, trimmedContent) == manualCategory.val

\* let category = manualCategory; if (!category || category === 'Auto') category = categorize(...)
resolveCategory(manualCategory, trimmedTitle, trimmedContent) ==
  IF isAuto(manualCategory) THEN categorizeTable[trimmedTitle, trimmedContent]
  ELSE manualCategory.val

\* variant: the id is derived from the number of stored rows
randomUUID_rowCount == Len(db) + 1

\* crypto.randomUUID(): a value never produced before
randomUUID == issued + 1

\* POST /api/notes
Create(title, content, manualCategory) ==
  /\ reqBlank' = (emptyAfterTrim(title) \/ emptyAfterTrim(content))
  /\ UNCHANGED <<stack, acts, engine, client>>
  /\ phase = "serving"
  /\ IF isBlank(title) \/ isBlank(content)
       THEN /\ resp' = Response("create", 400, 0, <<>>)
            /\ req' = NoBody
            /\ UNCHANGED <<phase, db, file, clock, issued, faults, everAssigned, deleted, committed>>
       ELSE /\ issued < MaxIds
            /\ LET id == randomUUID
                   now == clock
                   trimmedTitle == trim(title.val)
                   trimmedContent == trim(content.val)
                   category == resolveCategory(manualCategory, trimmedTitle, trimmedContent)
                   note == [id |-> id, title |-> trimmedTitle, content |-> trimmedContent,
                            category |-> category, createdAt |-> now, updatedAt |-> now]
               IN  /\ issued' = issued + 1
                   /\ req' = [title |-> title, content |-> content,
                              category |-> manualCategory]
                   /\ IF id \in rowIds(db)
                        THEN \* PRIMARY KEY: db.run throws, caught, 500
                             /\ resp' = Response("create", 500, 0, <<>>)
                             /\ UNCHANGED <<phase, db, file, faults, everAssigned, committed>>
                        ELSE \E io \in WriteOutcomes :
                             /\ canWrite(io)
                             /\ faults' = countWrite(io)
                             /\ file' = saveDb(insertRow(db, note), file, io)
                             /\ everAssigned' = everAssigned \cup {id}
                             /\ committed' = IF io = "ok" THEN insertRow(db, note)
                                             ELSE committed
                             /\ IF io = "killed"
                                  THEN phase' = "down" /\ db' = <<>> /\ resp' = NoResp
                                  ELSE /\ phase' = phase
                                       /\ db' = insertRow(db, note)
                                       /\ resp' = IF io = "ok" THEN Response("create", 201, id, <<note>>)
                                                  ELSE Response("create", 500, 0, <<>>)
                   /\ UNCHANGED <<clock, deleted>>

\* PUT /api/notes/:id
Update(id, title, content, manualCategory) ==
  /\ reqBlank' = (emptyAfterTrim(title) \/ emptyAfterTrim(content))
  /\ UNCHANGED <<stack, acts, engine, client>>
  /\ phase = "serving"
  /\ LET existing == queryOne(db, id)
     IN  IF existing = 0
           THEN /\ resp' = Response("update", 404, id, <<>>)
                /\ req' = NoBody
                /\ UNCHANGED <<phase, db, file, faults, committed>>
         ELSE IF isBlank(title) \/ isBlank(content)
           THEN /\ resp' = Response("update", 400, id, <<>>)
                /\ req' = NoBody
                /\ UNCHANGED <<phase, db, file, faults, committed>>
         ELSE LET now == clock
                  trimmedTitle == trim(title.val)
                  trimmedContent == trim(content.val)
                  category == resolveCategory(manualCategory, trimmedTitle, trimmedContent)
                  updatedNote == [db[existing] EXCEPT !.title = trimmedTitle,
                                    !.content = trimmedContent, !.category = category,
                                    !.updatedAt = now]
                  rows == updateRow(db, id, trimmedTitle, trimmedContent, category, now)
              IN  \E io \in WriteOutcomes :
                    /\ req' = [title |-> title, content |-> content,
                               category |-> manualCategory]
                    /\ canWrite(io)
                    /\ faults' = countWrite(io)
                    /\ file' = saveDb(rows, file, io)
                    /\ committed' = IF io = "ok" THEN rows ELSE committed
                    /\ IF io = "killed"
                         THEN phase' = "down" /\ db' = <<>> /\ resp' = NoResp
                         ELSE /\ phase' = phase
                              /\ db' = rows
                              /\ resp' = IF io = "ok"
                                           THEN Response("update", 200, id, <<updatedNote>>)
                                           ELSE Response("update", 500, id, <<>>)
  /\ UNCHANGED <<clock, issued, everAssigned, deleted>>

\* DELETE /api/notes/:id
Delete(id) ==
  /\ req' = NoBody
  /\ reqBlank' = FALSE
  /\ UNCHANGED <<stack, acts, engine, client>>
  /\ phase = "serving"
  /\ IF queryOne(db, id) = 0
       THEN /\ resp' = Response("delete", 404, id, <<>>)
            /\ UNCHANGED <<phase, db, file, faults, deleted, committed>>
       ELSE \E io \in WriteOutcomes :
              /\ canWrite(io)
              /\ faults' = countWrite(io)
              /\ file' = saveDb(removeId(db, id), file, io)
              /\ IF io = "killed"
                   THEN phase' = "down" /\ db' = <<>> /\ resp' = NoResp
                   ELSE /\ phase' = phase
                        /\ db' = removeId(db, id)
                        /\ resp' = IF io = "ok" THEN Response("delete", 200, id, <<>>)
                                   ELSE Response("delete", 500, id, <<>>)
              /\ deleted' = IF io = "ok" THEN deleted \cup {id} ELSE deleted
              /\ committed' = IF io = "ok" THEN removeId(db, id) ELSE committed
  /\ UNCHANGED <<clock, issued, everAssigned>>

\* GET /api/notes
ListAll ==
  /\ req' = NoBody
  /\ reqBlank' = FALSE
  /\ UNCHANGED <<stack, acts, engine, client>>
  /\ phase = "serving"
  /\ resp' = Response("listAll", 200, 0, listAll(db))
  /\ UNCHANGED <<phase, db, file, clock, issued, faults, everAssigned, deleted, committed>>

\* GET /api/notes/search?q=keyword
Search(keyword) ==
  /\ req' = NoBody
  /\ reqBlank' = FALSE
  /\ UNCHANGED <<stack, acts, engine, client>>
  /\ phase = "serving"
  /\ resp' = [Response("search", 200, 0, search(db, keyword)) EXCEPT !.q = keyword]
  /\ UNCHANGED <<phase, db, file, clock, issued, faults, everAssigned, deleted, committed>>

\* GET /api/categories
ListCategories ==
  /\ req' = NoBody
  /\ reqBlank' = FALSE
  /\ UNCHANGED <<stack, acts, engine, client>>
  /\ phase = "serving"
  /\ resp' = Response("categories", 200, 0, listCategoriesInUse(db))
  /\ UNCHANGED <<phase, db, file, clock, issued, faults, everAssigned, deleted, committed>>

\* process.on('SIGINT'): saveDb(), db.close(), process.exit(0); if saveDb throws the
\* process ends on the uncaught exception
Sigint ==
  /\ req' = NoBody
  /\ reqBlank' = FALSE
  /\ UNCHANGED <<stack, acts, engine, client>>
  /\ phase = "serving"
  /\ \E io \in WriteOutcomes :
       /\ canWrite(io)
       /\ faults' = countWrite(io)
       /\ file' = saveDb(db, file, io)
  /\ phase' = "down"
  /\ db' = <<>>
  /\ resp' = NoResp
  /\ UNCHANGED <<clock, issued, everAssigned, deleted, committed>>

\* the process is killed between two handlers
Crash ==
  /\ req' = NoBody
  /\ reqBlank' = FALSE
  /\ UNCHANGED <<stack, acts, engine, client>>
  /\ phase = "serving"
  /\ phase' = "down"
  /\ db' = <<>>
  /\ resp' = NoResp
  /\ UNCHANGED <<file, clock, issued, faults, everAssigned, deleted, committed>>

Next ==
  \/ Tick
  \/ InitDb
  \/ \E b \in Bodies : Create(b.title, b.content, b.category)
  \/ \E id \in Ids, b \in Bodies : Update(id, b.title, b.content, b.category)
  \/ \E id \in Ids : Delete(id)
  \/ ListAll
  \/ Sigint
  \/ Crash

Spec == Init /\ [][Next]_vars

(* --------------------------- the read routes -------------------------- *)
\* the server on a disk whose writes all succeed
ReadsInit ==
  /\ phase = "down"
  /\ db = <<>>
  /\ file = NoFile
  /\ clock = 1
  /\ issued = 0
  /\ faults = MaxFaults
  /\ resp = NoResp
  /\ everAssigned = {}
  /\ deleted = {}
  /\ committed = <<>>
  /\ req = NoBody
  /\ reqBlank = FALSE
  /\ stack = 0
  /\ acts = <<>>
  /\ engine = NoCall
  /\ client = NoClient

\* a category of the caller's own, outside the taxonomy
OwnLabel == <<"M", "i", "s", "c">>

\* the valid request bodies that carry it
OwnLabelBodies ==
  { b \in [title : TitleInputs, content : ContentInputs, category : {Some(OwnLabel)}] :
      ~(isBlank(b.title) \/ isBlank(b.content)) }

ReadsNext ==
  \/ Next
  \/ \E b \in OwnLabelBodies : Create(b.title, b.content, b.category)
  \/ \E id \in Ids, b \in OwnLabelBodies : Update(id, b.title, b.content, b.category)
  \/ \E q \in SearchInputs : Search(q)
  \/ ListCategories

SpecReads == ReadsInit /\ [][ReadsNext]_vars
(* ------------------ cold start on an old notes.db --------------------- *)
\* a row written before the category column existed
LegacyRow(id, title) ==
  [id |-> id, title |-> title, content |-> <<"d", "o", "g">>, createdAt |-> 1, updatedAt |-> 1]

LegacyTitles == { <<"E", "x", "a", "m">>, <<"h", "i">> }

\* the old files: no row, one row, two rows
LegacyFiles ==
  {LegacyFile(<<>>)}
    \cup {LegacyFile(<<LegacyRow(1, t)>>) : t \in LegacyTitles}
    \cup {LegacyFile(<<LegacyRow(1, t), LegacyRow(2, u)>>) : t \in LegacyTitles, u \in LegacyTitles}

\* no process yet, notes.db left by the version without categories
MigrateInit ==
  /\ phase = "down"
  /\ db = <<>>
  /\ file \in LegacyFiles
  /\ clock = 1
  /\ issued = 0
  /\ faults = 0
  /\ resp = NoResp
  /\ everAssigned = {}
  /\ deleted = {}
  /\ committed = <<>>
  /\ req = NoBody
  /\ reqBlank = FALSE
  /\ stack = 0
  /\ acts = <<>>
  /\ engine = NoCall
  /\ client = NoClient

\* start-up and what can be asked of the migrated collection
MigrateNext ==
  \/ Tick
  \/ InitDb
  \/ ListAll
  \/ \E q \in SearchInputs : Search(q)
  \/ ListCategories
  \/ Sigint
  \/ Crash

SpecMigrate == MigrateInit /\ [][MigrateNext]_vars

(* ----------------------------- event loop ---------------------------- *)
(* The same handlers, one statement at a time, under Node's event loop: a  *)
(* callback (a request handler or the SIGINT handler) is started only when *)
(* the call stack is empty, and keeps the stack until it returns or awaits. *)

\* the stored note the concurrent requests are about
LoopNote ==
  [id |-> 1, title |-> <<"h", "i">>, content |-> <<"d", "o", "g">>, category |-> Personal,
   createdAt |-> 1, updatedAt |-> 1]

NoRow ==
  [id |-> 0, title |-> <<>>, content |-> <<>>, category |-> <<>>,
   createdAt |-> 0, updatedAt |-> 0]

\* the bodies of the concurrent updates
LoopBodies ==
  { [title |-> Some(<<" ", "E", "x", "a", "m", " ">>), content |-> Some(<<"d", "o", "g", " ">>),
     category |-> Some(Auto)],
    [title |-> Some(<<"h", "i">>), content |-> Some(<<"d", "o", "g", " ">>),
     category |-> Some(Travel)] }

\* what arrives: PUT /api/notes/1, DELETE /api/notes/1, SIGINT
Arrivals ==
  {[op |-> "update", id |-> 1, body |-> b] : b \in LoopBodies}
    \cup {[op |-> "delete", id |-> 1, body |-> NoBody], [op |-> "sigint", id |-> 0, body |-> NoBody]}

\* variant: saveDb awaits an asynchronous fs.writeFile
saveDbYields_async == TRUE

\* whether a callback gives up the call stack while notes.db is being written:
\* saveDb calls fs.writeFileSync and the handlers await nothing
saveDbYields == FALSE

LoopInit ==
  /\ phase = "serving"
  /\ db = <<LoopNote>>
  /\ file = DbFile(<<LoopNote>>)
  /\ clock = 1
  /\ issued = 1
  /\ faults = 0
  /\ resp = NoResp
  /\ everAssigned = {1}
  /\ deleted = {}
  /\ committed = <<LoopNote>>
  /\ req = NoBody
  /\ reqBlank = FALSE
  /\ stack = 0
  /\ acts = <<>>
  /\ engine = NoCall
  /\ client = NoClient

storeHistory ==
  <<issued, faults, resp, everAssigned, deleted, committed, req, reqBlank, engine, client>>

\* a request or a signal arrives and its callback is queued
Arrive(a) ==
  /\ phase = "serving"
  /\ Len(acts) < MaxArrivals
  /\ acts' = Append(acts, [op |-> a.op, id |-> a.id, body |-> a.body, pc |-> "pending",
                           status |-> 0, result |-> NoRow])
  /\ UNCHANGED <<phase, db, file, clock, stack>>
  /\ UNCHANGED storeHistory

\* the event loop starts a queued callback; it runs up to its first write to the
\* database: the existence check, the validation, Date.now(), the category
Dispatch(i) ==
  /\ phase = "serving"
  /\ stack = 0
  /\ acts[i].pc = "pending"
  /\ LET a == acts[i]
         existing == queryOne(db, a.id)
     IN  IF a.op = "sigint"
           THEN /\ acts' = [acts EXCEPT ![i].pc = "saving"]
                /\ stack' = i
         ELSE IF existing = 0
           THEN /\ acts' = [acts EXCEPT ![i].pc = "done", ![i].status = 404]
                /\ stack' = 0
         ELSE IF a.op = "update" /\ (isBlank(a.body.title) \/ isBlank(a.body.content))
           THEN /\ acts' = [acts EXCEPT ![i].pc = "done", ![i].status = 400]
                /\ stack' = 0
         ELSE /\ acts' =
                   [acts EXCEPT ![i].pc = "ready",
                      ![i].result =
                        IF a.op = "delete" THEN db[existing]
                        ELSE [db[existing] EXCEPT
                                !.title = trim(a.body.title.val),
                                !.content = trim(a.body.content.val),
                                !.category = resolveCategory(a.body.category,
                                               trim(a.body.title.val), trim(a.body.content.val)),
                                !.updatedAt = clock]]
              /\ stack' = i
  /\ UNCHANGED <<phase, db, file, clock>>
  /\ UNCHANGED storeHistory

\* db.run(UPDATE ...) or db.run(DELETE ...); saveDb() is entered
Mutate(i) ==
  /\ stack = i
  /\ acts[i].pc = "ready"
  /\ LET a == acts[i]
     IN  db' = IF a.op = "delete" THEN removeId(db, a.id)
               ELSE updateRow(db, a.id, a.result.title, a.result.content,
                              a.result.category, a.result.updatedAt)
  /\ acts' = [acts EXCEPT ![i].pc = "saving"]
  /\ stack' = IF saveDbYields THEN 0 ELSE i
  /\ UNCHANGED <<phase, file, clock>>
  /\ UNCHANGED storeHistory

\* saveDb() returns: notes.db holds the database as it is now
Persist(i) ==
  /\ acts[i].pc = "saving"
  /\ stack = i \/ (saveDbYields /\ stack = 0)
  /\ file' = saveDb(db, file, "ok")
  /\ acts' = [acts EXCEPT ![i].pc = "saved"]
  /\ stack' = i
  /\ UNCHANGED <<phase, db, clock>>
  /\ UNCHANGED storeHistory

\* res.json(...) and the handler returns; the SIGINT handler closes the database and exits
Return(i) ==
  /\ stack = i
  /\ acts[i].pc = "saved"
  /\ acts' = [acts EXCEPT ![i].pc = "done", ![i].status = 200]
  /\ stack' = 0
  /\ IF acts[i].op = "sigint"
       THEN phase' = "down" /\ db' = <<>>
       ELSE UNCHANGED <<phase, db>>
  /\ UNCHANGED <<file, clock>>
  /\ UNCHANGED storeHistory

LoopNext ==
  \/ Tick
  \/ \E a \in Arrivals : Arrive(a)
  \/ \E i \in DOMAIN acts : Dispatch(i)
  \/ \E i \in DOMAIN acts : Mutate(i)
  \/ \E i \in DOMAIN acts : Persist(i)
  \/ \E i \in DOMAIN acts : Return(i)

SpecLoop == LoopInit /\ [][LoopNext]_vars

(* ------------------------- a call of categorize ----------------------- *)
\* titles: empty, no keyword, a keyword in capitals, keywords of two categories, a
\* keyword inside a longer word, one keyword, a keyword twice, a phrase that holds
\* another keyword, a keyword that extends another, a phrase in capitals
EngineTitles ==
  { <<>>,
    <<"h", "i">>,
    <<"E", "x", "a", "m">>,
    <<"e", "x", "a", "m", " ", "t", "r", "i", "p">>,
    <<"c", "a", "t", "s">>,
    <<"t", "r", "i", "p">>,
    <<"d", "o", "g", " ", "d", "o", "g">>,
    <<"m", "e", "n", "t", "a", "l", " ", "h", "e", "a", "l", "t", "h">>,
    <<"t", "e", "s", "t", "i", "n", "g">>,
    <<"R", "o", "a", "d", " ", "T", "r", "i", "p">> }

\* contents: no keyword, one keyword, a keyword three times, a phrase
EngineContents ==
  { <<"z">>,
    <<"e", "x", "a", "m">>,
    <<"d", "o", "g", " ", "d", "o", "g", " ", "d", "o", "g">>,
    <<"r", "o", "a", "d", " ", "t", "r", "i", "p">> }

\* categorize(title, content) is entered: bestCategory = 'General', bestScore = 0
EngineInit ==
  /\ phase = "down"
  /\ db = <<>>
  /\ file = NoFile
  /\ clock = 1
  /\ issued = 0
  /\ faults = 0
  /\ resp = NoResp
  /\ everAssigned = {}
  /\ deleted = {}
  /\ committed = <<>>
  /\ req = NoBody
  /\ reqBlank = FALSE
  /\ stack = 0
  /\ acts = <<>>
  /\ client = NoClient
  /\ engine \in { [title |-> t, content |-> c, n |-> 0, bestCategory |-> General,
                    bestScore |-> 0, pc |-> "scoring"] :
                     t \in EngineTitles, c \in EngineContents }

storeAndLoop ==
  <<phase, db, file, clock, issued, faults, resp, everAssigned, deleted, committed,
    req, reqBlank, stack, acts, client>>

\* one iteration of  for (const [category, keywords] of Object.entries(CATEGORIES))
ScoreCategory ==
  /\ engine.pc = "scoring"
  /\ engine.n < Len(CATEGORIES)
  /\ LET best == bestAfter(engine.title, engine.content, engine.n + 1)
     IN  engine' = [engine EXCEPT !.n = engine.n + 1,
                                  !.bestCategory = best.bestCategory,
                                  !.bestScore = best.bestScore]
  /\ UNCHANGED storeAndLoop

\* return bestCategory
ReturnBest ==
  /\ engine.pc = "scoring"
  /\ engine.n = Len(CATEGORIES)
  /\ engine' = [engine EXCEPT !.pc = "returned",
                              !.bestCategory = categorize(engine.title, engine.content)]
  /\ UNCHANGED storeAndLoop

EngineNext == ScoreCategory \/ ReturnBest

SpecEngine == EngineInit /\ [][EngineNext]_vars

(* ------------------------- the useNotes hook -------------------------- *)
(* One page using the hook against the server. A call of the hook sends    *)
(* its request with fetch and awaits the response; the requests travel on  *)
(* separate connections, so the server may handle them, and the page may   *)
(* receive their responses, in any order. Writes of notes.db succeed.      *)

\* the forms the page submits
ClientBodies == LoopBodies

\* a call of the hook: pc is "sent" (awaiting fetch), "answered" (the server has
\* responded, the response is on its way) or "done" (the await resumed and the call
\* returned); data is the JSON of the response
HookCall(op, id, body) ==
  [op |-> op, id |-> id, body |-> body, pc |-> "sent", status |-> 0, data |-> <<>>]

\* the page is opened: useEffect runs fetchNotes()
ClientInit ==
  /\ phase = "serving"
  /\ db = <<>>
  /\ file = DbFile(<<>>)
  /\ clock = 1
  /\ issued = 0
  /\ faults = 0
  /\ resp = NoResp
  /\ everAssigned = {}
  /\ deleted = {}
  /\ committed = <<>>
  /\ req = NoBody
  /\ reqBlank = FALSE
  /\ stack = 0
  /\ acts = <<>>
  /\ engine = NoCall
  /\ client = [notes |-> <<>>, isLoaded |-> FALSE,
               calls |-> <<HookCall("fetchNotes", 0, NoBody)>>]

notHook ==
  <<faults, resp, everAssigned, deleted, committed, req, reqBlank, stack, acts, engine>>

\* the user submits a form or confirms a deletion; App renders them only once
\* isLoaded is true, and edits and deletes a note of the list it shows
CallHook(op, id, body) ==
  /\ client.isLoaded
  /\ Len(client.calls) <= MaxCalls
  /\ op \in {"updateNote", "deleteNote"} => id \in rowIds(client.notes)
  /\ client' = [client EXCEPT !.calls = Append(client.calls, HookCall(op, id, body))]
  /\ UNCHANGED <<phase, db, file, clock, issued>>
  /\ UNCHANGED notHook

\* the server handles the request of call i and responds
Serve(i) ==
  /\ phase = "serving"
  /\ client.calls[i].pc = "sent"
  /\ LET c == client.calls[i]
         answered(status, data) ==
           [client EXCEPT !.calls[i].pc = "answered", !.calls[i].status = status,
                          !.calls[i].data = data]
         trimmedTitle == trim(c.body.title.val)
         trimmedContent == trim(c.body.content.val)
         category == resolveCategory(c.body.category, trimmedTitle, trimmedContent)
         existing == queryOne(db, c.id)
     IN  CASE c.op = "fetchNotes" ->
                /\ client' = answered(200, listAll(db))
                /\ UNCHANGED <<db, file, issued>>
           [] c.op = "createNote" ->
                IF isBlank(c.body.title) \/ isBlank(c.body.content)
                  THEN client' = answered(400, <<>>) /\ UNCHANGED <<db, file, issued>>
                  ELSE LET note == [id |-> randomUUID, title |-> trimmedTitle,
                                    content |-> trimmedContent, category |-> category,
                                    createdAt |-> clock, updatedAt |-> clock]
                       IN  /\ issued < MaxIds
                           /\ issued' = issued + 1
                           /\ db' = insertRow(db, note)
                           /\ file' = saveDb(insertRow(db, note), file, "ok")
                           /\ client' = answered(201, <<note>>)
           [] c.op = "updateNote" ->
                IF existing = 0
                  THEN client' = answered(404, <<>>) /\ UNCHANGED <<db, file, issued>>
                ELSE IF isBlank(c.body.title) \/ isBlank(c.body.content)
                  THEN client' = answered(400, <<>>) /\ UNCHANGED <<db, file, issued>>
                ELSE LET rows == updateRow(db, c.id, trimmedTitle, trimmedContent,
                                           category, clock)
                     IN  /\ db' = rows
                         /\ file' = saveDb(rows, file, "ok")
                         /\ client' = answered(200, <<rows[existing]>>)
                         /\ UNCHANGED issued
           [] c.op = "deleteNote" ->
                IF existing = 0
                  THEN client' = answered(404, <<>>) /\ UNCHANGED <<db, file, issued>>
                  ELSE /\ db' = removeId(db, c.id)
                       /\ file' = saveDb(removeId(db, c.id), file, "ok")
                       /\ client' = answered(200, <<>>)
                       /\ UNCHANGED issued
  /\ UNCHANGED <<phase, clock>>
  /\ UNCHANGED notHook

\* res.ok: the status is in 200..299
ok(status) == status >= 200 /\ status <= 299

\* setNotes((prev) => prev.map((note) => (note.id === id ? updatedNote : note)))
mapNotes(prev, id, updatedNote) ==
  [k \in DOMAIN prev |-> IF prev[k].id = id THEN updatedNote ELSE prev[k]]

\* the await of call i resumes with the response: the hook updates its list
Receive(i) ==
  /\ client.calls[i].pc = "answered"
  /\ LET c == client.calls[i]
         prev == client.notes
         notes == IF ~ok(c.status) THEN prev
                  ELSE CASE c.op = "fetchNotes" -> c.data
                         [] c.op = "createNote" -> <<c.data[1]>> \o prev
                         [] c.op = "updateNote" -> mapNotes(prev, c.id, c.data[1])
                         [] c.op = "deleteNote" -> removeId(prev, c.id)
     IN  client' = [client EXCEPT !.calls[i].pc = "done", !.notes = notes,
                                  !.isLoaded = client.isLoaded \/ c.op = "fetchNotes"]
  /\ UNCHANGED <<phase, db, file, clock, issued>>
  /\ UNCHANGED notHook

ClientNext ==
  \/ Tick
  \/ \E b \in ClientBodies : CallHook("createNote", 0, b)
  \/ \E id \in Ids, b \in ClientBodies : CallHook("updateNote", id, b)
  \/ \E id \in Ids : CallHook("deleteNote", id, NoBody)
  \/ \E i \in DOMAIN client.calls : Serve(i)
  \/ \E i \in DOMAIN client.calls : Receive(i)

SpecClient == ClientInit /\ [][ClientNext]_vars

(* ------------------------------- claims ------------------------------- *)
isMutation(op) == op \in {"create", "update", "delete"}

\* the stored row with this id (the id is in rows)
rowOf(rows, id) == rows[CHOOSE i \in DOMAIN rows : rows[i].id = id]

\* C1: a successful create adds exactly one note, with an id never assigned before,
\* the trimmed title and content and createdAt = updatedAt, and every other note is
\* kept; listAll then includes the note.
C1_CreateAddsOneFreshNote ==
  [][ (resp'.op = "create" /\ resp'.status = 201) =>
        LET id == resp'.id
            new == db'[Len(db')]
        IN  /\ Len(db') = Len(db) + 1
            /\ \A i \in DOMAIN db : db'[i] = db[i]
            /\ id \notin everAssigned
            /\ id \notin rowIds(db)
            /\ new.id = id
            /\ new.title = trim(req'.title.val)
            /\ new.content = trim(req'.content.val)
            /\ new.createdAt = new.updatedAt
            /\ Cardinality({k \in DOMAIN listAll(db') : listAll(db')[k] = new}) = 1
            /\ resp'.body = <<new>> ]_vars

\* C1 witness: a second note has been created while the first is still stored
C1_Witness ==
  /\ resp.op = "create" /\ resp.status = 201
  /\ Len(db) = 2
  /\ resp.body[1].title = <<"E", "x", "a", "m">>

\* C2 as stated: a successful update keeps id and createdAt and gives the note an
\* updatedAt different from the one it had.
C2_UpdateChangesUpdatedAt ==
  [][ (resp'.op = "update" /\ resp'.status = 200) =>
        LET old == rowOf(db, resp'.id)
            new == rowOf(db', resp'.id)
        IN  /\ new.id = old.id
            /\ new.createdAt = old.createdAt
            /\ new.updatedAt # old.updatedAt ]_vars

\* C2 amended: a successful update keeps the note's id, createdAt and place in the
\* table and sets its updatedAt to the value Date.now() has at the update.
C2_UpdateSetsUpdatedAtToNow ==
  [][ (resp'.op = "update" /\ resp'.status = 200) =>
        LET i == queryOne(db, resp'.id)
        IN  /\ i # 0
            /\ Len(db') = Len(db)
            /\ db'[i].id = db[i].id
            /\ db'[i].createdAt = db[i].createdAt
            /\ db'[i].updatedAt = clock
            /\ resp'.body = <<db'[i]>> ]_vars

\* C2 witness: an update answered 200 after the clock moved past the note's creation
C2_Witness ==
  /\ resp.op = "update" /\ resp.status = 200
  /\ resp.body[1].updatedAt > resp.body[1].createdAt

\* C3: once a delete of an id was answered 200, no listAll and no search returns a
\* note with that id in any later state, and a further delete of it is answered 404.
C3_DeletedIdNeverReturns ==
  [][ /\ \A id \in deleted' :
           /\ id \notin rowIds(listAll(db'))
           /\ \A q \in SearchInputs : id \notin rowIds(search(db', q))
      /\ (resp'.op = "delete" /\ resp'.id \in deleted) =>
           (resp'.status = 404 /\ db' = db /\ file' = file) ]_vars

\* C3 witness: a deleted id was deleted again, with another note created in between
C3_Witness ==
  /\ resp.op = "delete" /\ resp.status = 404
  /\ resp.id \in deleted
  /\ db # <<>>

\* the step answered a validation error and changed neither the collection nor the file
rejectedUnchanged == resp'.status = 400 /\ db' = db /\ file' = file

\* C4 as stated: a create or update with a blank title or content is answered with
\* the validation error and changes nothing.
C4_BlankIsValidationError ==
  [][ (resp'.op \in {"create", "update"} /\ reqBlank') => rejectedUnchanged ]_vars

\* C4 amended: a create, or an update of a stored note, with a blank title or content
\* is answered with the validation error and changes neither the collection nor the file.
C4_BlankRejectedUnchanged ==
  [][ (/\ reqBlank'
       /\ resp'.op = "create" \/ (resp'.op = "update" /\ resp'.id \in rowIds(db)))
        => rejectedUnchanged ]_vars

\* C4 witness: an update of a stored note was answered 400
C4_Witness ==
  resp.op = "update" /\ reqBlank /\ resp.status = 400 /\ resp.id \in rowIds(db)

\* C5: an update or delete naming an id that is not stored is answered 404, whatever
\* the body holds, and changes neither the collection nor the file.
C5_UnknownIdNotFound ==
  [][ (resp'.op \in {"update", "delete"} /\ resp'.id \notin rowIds(db)) =>
        (resp'.status = 404 /\ db' = db /\ file' = file) ]_vars

\* C5 witness: an update with a blank title or content naming an unknown id was
\* answered 404 while a note is stored
C5_Witness == resp.op = "update" /\ reqBlank /\ resp.status = 404 /\ db # <<>>

\* C6 as stated: the engine decides when the category is missing or Auto; any other
\* category is stored as sent.
C6_AutoOrVerbatim ==
  [][ (resp'.op \in {"create", "update"} /\ resp'.status \in {200, 201}) =>
        /\ rowOf(db', resp'.id).category = resp'.body[1].category
        /\ resp'.body[1].category =
             IF ~req'.category.some \/ req'.category.val = Auto
               THEN categorizeTable[trim(req'.title.val), trim(req'.content.val)]
               ELSE req'.category.val ]_vars

\* C6 amended: the engine decides, on the trimmed new title and content, when the
\* category is missing, empty or Auto; any other category is stored as sent.
C6_AutoEmptyOrVerbatim ==
  [][ (resp'.op \in {"create", "update"} /\ resp'.status \in {200, 201}) =>
        /\ rowOf(db', resp'.id).category = resp'.body[1].category
        /\ resp'.body[1].category =
             IF ~req'.category.some \/ req'.category.val = <<>> \/ req'.category.val = Auto
               THEN categorizeTable[trim(req'.title.val), trim(req'.content.val)]
               ELSE req'.category.val ]_vars

\* C6 witness: an update gave a note the engine's category for its new text
C6_Witness ==
  /\ resp.op = "update" /\ resp.status = 200
  /\ resp.body[1].title = <<"h", "i">>
  /\ resp.body[1].category = Personal

\* C7 as stated: what a mutation answered 200 or 201 left in the collection is in
\* notes.db from then on, so that a cold start loads it.
C7_AnsweredMutationsPersisted ==
  /\ \A i \in DOMAIN committed :
       \E k \in DOMAIN file.rows : file.rows[k] = committed[i]
  /\ \A id \in deleted : id \notin rowIds(file.rows)

\* C8 as stated: an operation whose write fails is answered with an error and leaves
\* what listAll and search return as it was.
C8_FailedWriteInvisible ==
  [][ (isMutation(resp'.op) /\ resp'.status = 500) =>
        /\ listAll(db') = listAll(db)
        /\ \A q \in SearchInputs : search(db', q) = search(db, q) ]_vars

\* C10: listAll returns every stored note once and nothing else, newest first.
C10_ListAllSortedPermutation ==
  LET r == listAll(db)
  IN  /\ Len(r) = Len(db)
      /\ \A i \in DOMAIN db : Cardinality({k \in DOMAIN r : r[k] = db[i]}) = 1
      /\ \A k \in DOMAIN r : \A l \in DOMAIN r : k < l => r[k].createdAt >= r[l].createdAt
      /\ resp.op = "listAll" => (resp.status = 200 /\ resp.body = r)

\* C10 witness: listAll answered with two notes, the newer one first
C10_Witness ==
  /\ resp.op = "listAll"
  /\ Len(resp.body) = 2
  /\ resp.body[1].createdAt > resp.body[2].createdAt
  /\ resp.body[1] = db[2]

\* the callbacks that are between their first statement and their return
started == {i \in DOMAIN acts : acts[i].pc \in {"ready", "saving", "saved"}}

\* the notes the updates that have written to the database meant to store
updateResults ==
  {acts[i].result : i \in {j \in DOMAIN acts :
                             acts[j].op = "update" /\ acts[j].pc \in {"saving", "saved", "done"}
                               /\ acts[j].status \in {0, 200}}}

\* C9: the mutate-then-persist steps of two callbacks never interleave: at most one
\* callback is between its start and its return, it alone is writing notes.db, and
\* every note in the database and in the file is the initial note or the complete
\* result of one update; with no write under way the file is the database.
C9_HandlersDoNotInterleave ==
  /\ Cardinality(started) <= 1
  /\ Cardinality({i \in DOMAIN acts : acts[i].pc = "saving"}) <= 1
  /\ \A i \in DOMAIN acts : acts[i].pc = "saving" => stack = i
  /\ \A k \in DOMAIN db : db[k] \in {LoopNote} \cup updateResults
  /\ \A k \in DOMAIN file.rows : file.rows[k] \in {LoopNote} \cup updateResults
  /\ (started = {} /\ phase = "serving") => file = DbFile(db)

\* C9 witness: two updates of the same note with different bodies have both been
\* answered 200 and the note is the result of the later one
C9_Witness ==
  \E i \in DOMAIN acts : \E j \in DOMAIN acts :
    /\ i < j
    /\ acts[i].op = "update" /\ acts[j].op = "update"
    /\ acts[i].body # acts[j].body
    /\ acts[i].status = 200 /\ acts[j].status = 200
    /\ db = <<acts[j].result>>


\* keyword stands in text, character for character, letters compared without case
contains(text, keyword) ==
  \E p \in 0..(Len(text) - Len(keyword)) :
    \A k \in 1..Len(keyword) : toLowerCaseChar(text[p + k]) = toLowerCaseChar(keyword[k])

\* C11 as stated: for every keyword, search returns exactly the notes whose title or
\* content contains the keyword as a literal case-insensitive substring, newest first.
C11_SearchIsLiteralContainment ==
  /\ \A q \in SearchInputs :
       LET r == search(db, q)
       IN  /\ \A i \in DOMAIN db :
                Cardinality({k \in DOMAIN r : r[k] = db[i]}) =
                  IF contains(db[i].title, q) \/ contains(db[i].content, q) THEN 1 ELSE 0
           /\ \A k \in DOMAIN r : \E i \in DOMAIN db : r[k] = db[i]
           /\ \A k \in DOMAIN r : \A l \in DOMAIN r :
                k < l => r[k].createdAt >= r[l].createdAt
  /\ resp.op = "search" => resp.body = search(db, resp.q)

\* C12: search with the empty keyword returns the notes listAll returns, in the same order.
C12_EmptySearchIsListAll ==
  /\ search(db, <<>>) = listAll(db)
  /\ (resp.op = "search" /\ resp.q = <<>>) => (resp.status = 200 /\ resp.body = listAll(db))

\* C12 witness: a search for "" answered two notes, the one inserted last first
C12_Witness ==
  /\ resp.op = "search" /\ resp.q = <<>>
  /\ Len(resp.body) = 2
  /\ resp.body[1] = db[2]
  /\ resp.body[1].createdAt > resp.body[2].createdAt

\* C13: listCategoriesInUse returns the categories of the stored notes, each once, in
\* ascending order, so a category that no stored note has any more is not returned.
C13_CategoriesInUseDistinctAscending ==
  LET r == listCategoriesInUse(db)
  IN  /\ {r[k] : k \in DOMAIN r} = {db[i].category : i \in DOMAIN db}
      /\ \A k \in DOMAIN r : \A l \in DOMAIN r : k < l => textLess(r[k], r[l])
      /\ resp.op = "categories" => (resp.status = 200 /\ resp.body = r)

\* C13 witness: the categories answered are two labels in ascending order while the
\* table holds them the other way round
C13_Witness ==
  /\ resp.op = "categories"
  /\ resp.body = <<Educational, OwnLabel>>
  /\ db[1].category = OwnLabel

\* the places of text where keyword stands as a whole word or phrase
occurrences(text, keyword) ==
  {p \in 1..Len(text) : regexMatchesAt(toLowerCase(text), keyword, p)}

RECURSIVE weightedSum(_, _, _, _)
\* sum over keywords[k..] of 2 x occurrences in the title + 1 x occurrences in the content
weightedSum(title, content, keywords, k) ==
  IF k > Len(keywords) THEN 0
  ELSE 2 * Cardinality(occurrences(title, keywords[k]))
         + Cardinality(occurrences(content, keywords[k]))
         + weightedSum(title, content, keywords, k + 1)

\* the score the n-th category of the taxonomy is to get
weightedScore(title, content, n) == weightedSum(title, content, CATEGORIES[n].keywords, 1)

\* the place in the taxonomy of a label, 0 for General
categoryIndex(label) ==
  IF \E n \in DOMAIN CATEGORIES : CATEGORIES[n].category = label
    THEN CHOOSE n \in DOMAIN CATEGORIES : CATEGORIES[n].category = label
    ELSE 0

\* C14: each category's score is the sum over its keywords of 2 x the whole-word
\* occurrences in the title + 1 x those in the content, every occurrence counted, and
\* when some score is positive categorize returns a category of maximal score.
C14_WeightedScoreMaximum ==
  /\ engine.pc = "scoring" =>
       \A n \in 1..engine.n :
         /\ categoryScore(engine.title, engine.content, n)
              = weightedScore(engine.title, engine.content, n)
         /\ engine.bestScore >= weightedScore(engine.title, engine.content, n)
  /\ engine.pc = "returned" =>
       LET score(n) == weightedScore(engine.title, engine.content, n)
       IN  (\E n \in DOMAIN CATEGORIES : score(n) > 0) =>
             /\ categoryIndex(engine.bestCategory) # 0
             /\ score(categoryIndex(engine.bestCategory)) = engine.bestScore
             /\ \A n \in DOMAIN CATEGORIES : score(n) <= engine.bestScore

\* C14 witness: one Travel keyword in the title and one Educational keyword in the
\* content: Travel is returned with score 2
C14_Witness ==
  /\ engine.pc = "returned"
  /\ engine.title = <<"t", "r", "i", "p">>
  /\ engine.content = <<"e", "x", "a", "m">>
  /\ engine.bestCategory = Travel
  /\ engine.bestScore = 2

\* C15: categorize returns General exactly when no keyword of any category stands as
\* a whole word or phrase in the title or in the content.
C15_GeneralIffNoMatch ==
  engine.pc = "returned" =>
    (engine.bestCategory = General <=>
       \A n \in DOMAIN CATEGORIES : \A k \in DOMAIN CATEGORIES[n].keywords :
         /\ occurrences(engine.title, CATEGORIES[n].keywords[k]) = {}
         /\ occurrences(engine.content, CATEGORIES[n].keywords[k]) = {})

\* C15 witness: the title holds a keyword only inside a longer word and General is returned
C15_Witness ==
  /\ engine.pc = "returned"
  /\ engine.title = <<"c", "a", "t", "s">>
  /\ engine.content = <<"z">>
  /\ engine.bestCategory = General

\* C18: a category whose score equals the best so far does not replace it, and the
\* category returned is the first of the taxonomy with the maximal positive score.
C18_FirstMaximumWins ==
  [][ /\ (engine'.n = engine.n + 1 /\ engine.bestScore > 0
            /\ weightedScore(engine.title, engine.content, engine'.n) = engine.bestScore)
         => engine'.bestCategory = engine.bestCategory
      /\ (engine'.pc = "returned" /\ engine'.bestScore > 0) =>
           LET score(n) == weightedScore(engine.title, engine.content, n)
               first == CHOOSE n \in DOMAIN CATEGORIES :
                          /\ score(n) = engine'.bestScore
                          /\ \A m \in 1..(n - 1) : score(m) < engine'.bestScore
           IN  engine'.bestCategory = CATEGORIES[first].category ]_vars

\* C18 witness: Educational and Travel both score 2 and Educational is returned
C18_Witness ==
  /\ engine.pc = "returned"
  /\ engine.title = <<"e", "x", "a", "m", " ", "t", "r", "i", "p">>
  /\ engine.content = <<"z">>
  /\ engine.bestScore = 2
  /\ engine.bestCategory = Educational

\* the eight labels: the keys of the taxonomy and the fallback
KnownLabels == {CATEGORIES[n].category : n \in DOMAIN CATEGORIES} \cup {General}

\* C16 as stated: the category of every stored note is one of the eight known labels.
C16_CategoryIsKnownLabel ==
  \A i \in DOMAIN db : db[i].category \in KnownLabels

\* the request left the category to the engine
leftToEngine(body) ==
  ~body.category.some \/ body.category.val = <<>> \/ body.category.val = Auto

\* C16 amended: a category chosen by the engine is one of the eight known labels, and
\* the category of every stored note is one of them or a string a caller sent.
C16_EngineCategoryIsKnownLabel ==
  [][ /\ (resp'.op \in {"create", "update"} /\ resp'.status \in {200, 201}
            /\ leftToEngine(req'))
         => rowOf(db', resp'.id).category \in KnownLabels
      /\ \A i \in DOMAIN db' :
           db'[i].category \in KnownLabels \cup {Travel, OwnLabel} ]_vars

\* C16 witness: an update left the category to the engine and got Educational while
\* another stored note carries a label of its caller's own
C16_Witness ==
  /\ resp.op = "update" /\ resp.status = 200
  /\ req.category = Some(Auto)
  /\ resp.body[1].category = Educational
  /\ \E i \in DOMAIN db : db[i].category = OwnLabel

\* C17 as stated: every stored note has updatedAt >= createdAt, and a note has
\* updatedAt # createdAt only from an update of it that was answered 200 (a row that
\* had it before the step, or is loaded from notes.db, keeps it).
C17_UpdatedAtOnlyBySuccessfulUpdate ==
  [][ \A k \in DOMAIN db' :
        LET r == db'[k]
        IN  /\ r.updatedAt >= r.createdAt
            /\ r.updatedAt # r.createdAt =>
                 \/ resp'.op = "update" /\ resp'.status = 200 /\ resp'.id = r.id
                 \/ \E i \in DOMAIN db : db[i] = r
                 \/ phase = "down" /\ \E i \in DOMAIN file.rows : file.rows[i] = r ]_vars

\* C20: a create, update or delete leaves every note but the one it names as it was
\* and adds or removes no other; listAll, search and listCategoriesInUse leave the
\* collection and notes.db as they were.
C20_OnlyTargetChanges ==
  [][ /\ resp'.op \in {"listAll", "search", "categories"} => (db' = db /\ file' = file)
      /\ resp'.op \in {"create", "update", "delete"} =>
           /\ \A i \in DOMAIN db :
                db[i].id # resp'.id => \E j \in DOMAIN db' : db'[j] = db[i]
           /\ \A j \in DOMAIN db' :
                db'[j].id # resp'.id => \E i \in DOMAIN db : db[i] = db'[j] ]_vars

\* C20 witness: one of two stored notes was updated and the other has another title
C20_Witness ==
  /\ resp.op = "update" /\ resp.status = 200
  /\ Len(db) = 2
  /\ \E i \in DOMAIN db : db[i].id # resp.id /\ db[i].title # resp.body[1].title

\* C19 as stated: a start on a notes.db whose rows have no category begins to serve
\* only with every row given categorize(its title, its content) and the migrated
\* table written to notes.db; a migration that did not reach every row does not end
\* in a serving process.
C19_MigrationCompleteBeforeServing ==
  [][ (phase = "down" /\ ~hasCategory(file) /\ phase' = "serving") =>
        /\ Len(db') = Len(file.rows)
        /\ \A i \in DOMAIN db' :
             db'[i] = withCategory(file.rows[i],
                                   categorize(file.rows[i].title, file.rows[i].content))
        /\ file' = DbFile(db') ]_vars

\* C21 as stated: once every call of the hook has returned, the list the hook holds
\* is what listAll returns: the stored notes, each once, with their attribute values,
\* newest first (notes with equal createdAt in either order).
C21_LocalListIsListAll ==
  (client.isLoaded /\ \A i \in DOMAIN client.calls : client.calls[i].pc = "done") =>
    LET local == client.notes
    IN  /\ Len(local) = Len(db)
        /\ \A i \in DOMAIN db : Cardinality({k \in DOMAIN local : local[k] = db[i]}) = 1
        /\ \A k \in DOMAIN local : \A l \in DOMAIN local :
             k < l => local[k].createdAt >= local[l].createdAt

=============================================================================
